---- MODULE Spec2Model ----
(***************************************************************************)
(* Model of memdoc's data-directory migrator, core/data_migrator.py.       *)
(*                                                                         *)
(* The filesystem is a function from absolute paths (sequences of names)   *)
(* to nodes; migrate_data_directory is a sequence of steps over it, one    *)
(* action per statement group, with the faults a filesystem operation can  *)
(* raise drawn nondeterministically at the step that performs it.          *)
(***************************************************************************)
EXTENDS Integers, Sequences, FiniteSets, TLC

VARIABLES
    fs,          \* the filesystem: [existing paths -> node]
    free,        \* shutil.disk_usage(...).free of the destination's volume
    clock,       \* datetime.now(), in ticks of 1/TicksPerSecond second
    arg,         \* the call's arguments: source, destination, keep_backup, has_cb
    pc,          \* position inside migrate_data_directory
    source,      \* local: source.resolve()
    destination, \* local: destination.resolve()
    stats,       \* local: the stats dict
    success,     \* the first component of the returned pair
    total_bytes, \* local
    walk,        \* the state of the generator source.rglob('*')
    verdict,     \* (is_valid, message) as returned by verify_migration
    exc,         \* the exception in flight, if one was raised inside the try
    fs0,         \* history: the filesystem when the call started
    began,       \* history: line 213 (destination.mkdir) has been reached
    calls,       \* number of calls of migrate_data_directory so far
    prev,        \* history: what the previous call returned
    progress,    \* what the caller's progress callback has been told in this
                 \* call: the number of invocations and the last arguments
    estimated,   \* what estimate_migration_time returned, in 1/EstimateDen s
    request,     \* app.py: the JSON body posted to /api/settings/migrate-data
    config,      \* the stored configuration: data_directory, last_migration
    memoir_handler, \* app.py: the data directory of the running MemoirHandler
    response     \* app.py: the HTTP status and body the endpoint answered

vars == <<fs, free, clock, arg, pc, source, destination, stats, success,
          total_bytes, walk, verdict, exc, fs0, began, calls, prev, progress,
          estimated, request, config, memoir_handler, response>>

\* The variables of the HTTP endpoint.
apiVars == <<request, config, memoir_handler, response>>

----------------------------------------------------------------------------
(* Bounds of the model *)

\* Longest path (in components) the filesystem accepts: longer ones raise
\* OSError "File name too long".
MaxDepth == 4
\* Calls of migrate_data_directory in one behaviour.
MaxCalls == 2
\* Last tick of the clock.
MaxClock == 2

----------------------------------------------------------------------------
(* Paths and the filesystem *)

Root == << >>
NoPath == <<"<None>">>

Dir == [kind |-> "dir", data |-> 0, size |-> 0]
File(d, n) == [kind |-> "file", data |-> d, size |-> n]

IsPrefix(a, p) == Len(a) <= Len(p) /\ SubSeq(p, 1, Len(a)) = a
Parent(p) == SubSeq(p, 1, Len(p) - 1)
Name(p) == p[Len(p)]

Exists(f, p) == p \in DOMAIN f
IsDir(f, p) == p \in DOMAIN f /\ f[p].kind = "dir"
IsFile(f, p) == p \in DOMAIN f /\ f[p].kind = "file"

\* Path.iterdir / os.scandir: the entries of directory d.
Children(f, d) == {p \in DOMAIN f : Len(p) = Len(d) + 1 /\ IsPrefix(d, p)}
\* list(d.rglob('*')): everything below d.
Under(f, d) == {p \in DOMAIN f : Len(p) > Len(d) /\ IsPrefix(d, p)}
FilesUnder(f, d) == {p \in Under(f, d) : f[p].kind = "file"}

\* Path.relative_to and the / operator.
RelativeTo(p, base) == SubSeq(p, Len(base) + 1, Len(p))
Join(base, rel) == base \o rel

\* Path.resolve(): the absolute path with every "name/.." pair removed.
RECURSIVE Resolve(_)
Resolve(p) ==
    IF \E i \in 1..Len(p) : p[i] = ".."
    THEN LET i == CHOOSE j \in 1..Len(p) :
                     p[j] = ".." /\ \A k \in 1..(j - 1) : p[k] # ".."
         IN  Resolve(SubSeq(p, 1, i - 2) \o SubSeq(p, i + 1, Len(p)))
    ELSE p

Restrict(f, keep) == [p \in keep |-> f[p]]
Remove(f, gone) == Restrict(f, DOMAIN f \ gone)

\* Path.mkdir(parents=True, exist_ok=True): raises when a component exists
\* as a file or when the path is too long.
MissingDirs(f, p) == {SubSeq(p, 1, i) : i \in 1..Len(p)} \ DOMAIN f
MkdirRaises(f, p) ==
    \/ Len(p) > MaxDepth
    \/ \E i \in 1..Len(p) : IsFile(f, SubSeq(p, 1, i))
Mkdir(f, p) ==
    [q \in DOMAIN f \cup MissingDirs(f, p) |-> IF q \in DOMAIN f THEN f[q] ELSE Dir]

\* shutil.copy2(src, dst), completed.
CopyFile(f, s, d) == [q \in DOMAIN f \cup {d} |-> IF q = d THEN f[s] ELSE f[q]]
\* shutil.copy2 interrupted after the destination file was opened for writing.
TruncatedCopy(f, d) == [q \in DOMAIN f \cup {d} |-> IF q = d THEN File(0, 0) ELSE f[q]]

\* shutil.rmtree(d), completed.
Rmtree(f, d) == Remove(f, {d} \cup Under(f, d))
\* What a failed rmtree(d) may already have removed: it deletes bottom-up, so
\* a removed directory has lost everything below it, and d itself remains.
PartialDeletions(f, d) ==
    {X \in SUBSET Under(f, d) : \A p \in X : Under(f, p) \subseteq X}
\* The outcomes of shutil.rmtree(d): [ok, fs].
RmtreeOutcomes(f, d) ==
    IF ~Exists(f, d)
    THEN {[ok |-> FALSE, fs |-> f]}
    ELSE {[ok |-> TRUE, fs |-> Rmtree(f, d)]}
         \cup {[ok |-> FALSE, fs |-> Remove(f, X)] : X \in PartialDeletions(f, d)}

\* os.rename(s, d) of a directory tree.
Rename(f, s, d) ==
    LET moved == {s} \cup Under(f, s)
        kept == DOMAIN f \ moved
        new == {Join(d, RelativeTo(p, s)) : p \in moved}
    IN  [q \in kept \cup new |->
            IF q \in new THEN f[Join(s, RelativeTo(q, d))] ELSE f[q]]

----------------------------------------------------------------------------
(* The records the function returns *)

Msg(text, path, a, b) == [text |-> text, path |-> path, a |-> a, b |-> b]
None == Msg("None", Root, 0, 0)
Error(prefix, m) == [prefix |-> prefix, msg |-> m]
NoError == Error("", None)

\* stats = {'files_copied': 0, 'bytes_copied': 0, 'backup_location': None, 'error': None}
NewStats ==
    [files_copied |-> 0, bytes_copied |-> 0, backup_location |-> NoPath, error |-> NoError]

\* The callback has not been invoked.
NoProgress == [invocations |-> 0, bytes_copied |-> 0, total_bytes |-> 0]

\* app.py: the endpoint has not been called, and has not answered.
NoRequest == [new_path |-> NoPath, keep_backup |-> TRUE]
NoResponse == [status |-> 0, message |-> "", details |-> NoError, data |-> NewStats]
\* config['last_migration'] = None
NoMigration == [from |-> NoPath, to |-> NoPath, backup_kept |-> FALSE]

----------------------------------------------------------------------------
(* Helpers of the module *)

RECURSIVE SumSizes(_, _)
SumSizes(f, S) ==
    IF S = {} THEN 0
    ELSE LET p == CHOOSE q \in S : TRUE IN f[p].size + SumSizes(f, S \ {p})

\* calculate_directory_size(path): the sizes of the regular files below path;
\* 0 for a path that has nothing below it.
calculate_directory_size(f, path) == SumSizes(f, FilesUnder(f, path))

\* calculate_file_checksum(file_path): the MD5 digest of the content, taken as
\* collision-free (the content stands for its digest), and "" (here -1) when
\* the file cannot be opened for reading, as a directory cannot.
EmptyDigest == -1
calculate_file_checksum_BySize(f, p) == IF IsFile(f, p) THEN f[p].size ELSE EmptyDigest
calculate_file_checksum(f, p) == IF IsFile(f, p) THEN f[p].data ELSE EmptyDigest

RECURSIVE Log2Floor(_)
Log2Floor(n) == IF n <= 1 THEN 0 ELSE 1 + Log2Floor(n \div 2)
RECURSIVE Pow2(_)
Pow2(e) == IF e = 0 THEN 1 ELSE 2 * Pow2(e - 1)

(***************************************************************************)
(* dest_stat.free < total_bytes * 1.1, in IEEE-754 binary64.  The literal  *)
(* 1.1 is the double 11/10 + (4/10) * 2^-52, so the exact product is       *)
(* 11*S/10 + (4*S/10) * 2^-52, which is then rounded to nearest, ties to   *)
(* even.  When 10 does not divide 11*S the product is at least 1/10 away   *)
(* from every integer and rounding cannot cross one.  When S = 10*k the    *)
(* product is the integer 11*k plus 4*k * 2^-52, and it rounds up to the   *)
(* next double above 11*k exactly when that excess is more than half an    *)
(* ulp of 11*k, that is when 8*k > 2^floor(log2(11*k)).                    *)
(***************************************************************************)
RoundsAbove(k) == k > 0 /\ 8 * k > Pow2(Log2Floor(11 * k))
BelowNeeded(freeBytes, total) ==
    IF (11 * total) % 10 # 0
    THEN 10 * freeBytes < 11 * total
    ELSE LET k == total \div 10
         IN  freeBytes < 11 * k \/ (freeBytes = 11 * k /\ RoundsAbove(k))

----------------------------------------------------------------------------
(* verify_migration *)

SampleSize == 5
Min(a, b) == IF a < b THEN a ELSE b

Valid == [ok |-> TRUE, msg |-> Msg("Migration verified successfully", Root, 0, 0)]
Invalid(m) == [ok |-> FALSE, msg |-> m]
\* The value of (is_valid, message) before line 241 has run.
Unverified == [ok |-> FALSE, msg |-> None]

\* Lines 113-124 without the test of line 117: a sampled file that the
\* destination lacks is passed over.
SampleFailure_PresentOnly(f, src, dst, source_file) ==
    LET relative_path == RelativeTo(source_file, src)
        dest_file == Join(dst, relative_path)
    IN  IF Exists(f, dest_file)
           /\ calculate_file_checksum(f, source_file) # calculate_file_checksum(f, dest_file)
        THEN Msg("Checksum mismatch for", relative_path, 0, 0)
        ELSE None

\* Lines 113-124 for one sampled file: the failure it yields, or None.
SampleFailure(f, src, dst, source_file) ==
    LET relative_path == RelativeTo(source_file, src)
        dest_file == Join(dst, relative_path)
    IN  IF ~Exists(f, dest_file)
        THEN Msg("File missing in destination", relative_path, 0, 0)
        ELSE IF calculate_file_checksum(f, source_file) # calculate_file_checksum(f, dest_file)
        THEN Msg("Checksum mismatch for", relative_path, 0, 0)
        ELSE None

\* Lines 106-126: random.sample draws sample_size files in a random order and
\* the loop returns at the first one that fails.
SampleOutcomes(f, src, dst) ==
    LET sample_files == FilesUnder(f, src)
        sample_size == Min(SampleSize, Cardinality(sample_files))
        samples == {X \in SUBSET sample_files : Cardinality(X) = sample_size}
        failures(X) == {SampleFailure(f, src, dst, p) : p \in X} \ {None}
    IN  UNION {IF failures(X) = {} THEN {Valid} ELSE {Invalid(m) : m \in failures(X)}
               : X \in samples}

\* Lines 86 and 91: "not (d.exists() and d.is_dir())" negated.
DirectoryFound_Exists(f, p) == Exists(f, p)
DirectoryFound(f, p) == Exists(f, p) /\ IsDir(f, p)

\* Line 103: source_file_count != dest_file_count.
CountMismatch_Fewer(source_file_count, dest_file_count) ==
    dest_file_count < source_file_count
CountMismatch(source_file_count, dest_file_count) ==
    source_file_count # dest_file_count

\* Lines 73-124 use exists(), is_dir(), rglob() and open(..., 'rb') only: the
\* filesystem verify_migration(source, destination) leaves behind.
VerifyEffect_Mkdir(f, src, dst) == IF MkdirRaises(f, dst) THEN f ELSE Mkdir(f, dst)
VerifyEffect(f, src, dst) == f

\* verify_migration with the file counts compared before the layout is
\* looked at.
verify_migration_CountsFirst(f, src, dst) ==
    LET source_file_count == Cardinality(FilesUnder(f, src))
        dest_file_count == Cardinality(FilesUnder(f, dst))
    IN  IF ~Exists(f, dst)
        THEN {Invalid(Msg("Destination directory does not exist", Root, 0, 0))}
        ELSE IF ~IsDir(f, dst)
        THEN {Invalid(Msg("Destination exists but is not a directory", Root, 0, 0))}
        ELSE IF CountMismatch(source_file_count, dest_file_count)
        THEN {Invalid(Msg("File count mismatch", Root, source_file_count, dest_file_count))}
        ELSE IF Exists(f, Join(src, <<"memoir.json">>))
                /\ ~Exists(f, Join(dst, <<"memoir.json">>))
        THEN {Invalid(Msg("memoir.json not found in destination", Root, 0, 0))}
        ELSE IF Exists(f, Join(src, <<"memoir.json">>))
                /\ ~DirectoryFound(f, Join(dst, <<"chapters">>))
        THEN {Invalid(Msg("chapters/ directory not found in destination", Root, 0, 0))}
        ELSE IF Exists(f, Join(src, <<"memoir.json">>))
                /\ ~DirectoryFound(f, Join(dst, <<"images">>))
        THEN {Invalid(Msg("images/ directory not found in destination", Root, 0, 0))}
        ELSE SampleOutcomes(f, src, dst)

\* verify_migration(source, destination): the set of (is_valid, message)
\* pairs it can return, over the random choice of the sample.
verify_migration(f, src, dst) ==
    LET source_file_count == Cardinality(FilesUnder(f, src))
        dest_file_count == Cardinality(FilesUnder(f, dst))
    IN  IF ~Exists(f, dst)
        THEN {Invalid(Msg("Destination directory does not exist", Root, 0, 0))}
        ELSE IF ~IsDir(f, dst)
        THEN {Invalid(Msg("Destination exists but is not a directory", Root, 0, 0))}
        ELSE IF Exists(f, Join(src, <<"memoir.json">>))
                /\ ~Exists(f, Join(dst, <<"memoir.json">>))
        THEN {Invalid(Msg("memoir.json not found in destination", Root, 0, 0))}
        ELSE IF Exists(f, Join(src, <<"memoir.json">>))
                /\ ~DirectoryFound(f, Join(dst, <<"chapters">>))
        THEN {Invalid(Msg("chapters/ directory not found in destination", Root, 0, 0))}
        ELSE IF Exists(f, Join(src, <<"memoir.json">>))
                /\ ~DirectoryFound(f, Join(dst, <<"images">>))
        THEN {Invalid(Msg("images/ directory not found in destination", Root, 0, 0))}
        ELSE IF CountMismatch(source_file_count, dest_file_count)
        THEN {Invalid(Msg("File count mismatch", Root, source_file_count, dest_file_count))}
        ELSE SampleOutcomes(f, src, dst)

----------------------------------------------------------------------------
(* The initial filesystems and the arguments of the call *)

Data == <<"data">>
New == <<"new">>

\* The configuration as stored before any migration: data_directory names
\* the source.
StoredConfig == [data_directory |-> Data, last_migration |-> NoMigration]

\* The data directory as the application lays it out: a manifest memoir.json,
\* chapters/ and images/, each either absent, empty or holding one file.
Presence == {"absent", "empty", "full"}
SourceEntries(memoir, chapters, images) ==
    {<<Data, Dir>>}
    \cup (IF memoir THEN {<<Data \o <<"memoir.json">>, File(1, 20)>>} ELSE {})
    \cup (IF chapters # "absent" THEN {<<Data \o <<"chapters">>, Dir>>} ELSE {})
    \cup (IF chapters = "full"
          THEN {<<Data \o <<"chapters", "ch1.md">>, File(2, 30)>>} ELSE {})
    \cup (IF images # "absent" THEN {<<Data \o <<"images">>, Dir>>} ELSE {})
    \cup (IF images = "full"
          THEN {<<Data \o <<"images", "cover.jpg">>, File(3, 0)>>} ELSE {})

\* What is at /new before the call.
NewKinds == {"absent", "empty", "has_file", "has_dir", "is_file"}
NewEntries(kind) ==
    CASE kind = "absent" -> {}
      [] kind = "empty" -> {<<New, Dir>>}
      [] kind = "has_file" -> {<<New, Dir>>, <<New \o <<"old.txt">>, File(4, 10)>>}
      [] kind = "has_dir" -> {<<New, Dir>>, <<New \o <<"sub">>, Dir>>}
      [] kind = "is_file" -> {<<New, File(4, 10)>>}

FsOf(entries) ==
    [p \in {e[1] : e \in entries} |-> (CHOOSE e \in entries : e[1] = p)[2]]

InitialFilesystems ==
    {FsOf({<<Root, Dir>>} \cup NewEntries(n)) : n \in NewKinds}
    \cup {FsOf({<<Root, Dir>>, <<Data, File(1, 20)>>} \cup NewEntries(n)) : n \in NewKinds}
    \cup {FsOf({<<Root, Dir>>} \cup SourceEntries(m, c, i) \cup NewEntries(n)) :
            m \in BOOLEAN, c \in Presence, i \in Presence, n \in NewKinds}

\* The destinations a caller passes: a sibling of the source, the source
\* itself (spelled directly and through ".."), a directory inside the source,
\* and a path whose parent does not exist.
Destinations ==
    {New, Data, <<"new", "..", "data">>, <<"data", "images">>, <<"gone", "new">>}

\* Free bytes on the destination's volume.
FreeSpaces == {0, 22, 55, 500}

Arguments ==
    [source : {Data}, destination : Destinations, keep_backup : BOOLEAN, has_cb : BOOLEAN]

Init ==
    /\ fs \in InitialFilesystems
    /\ free \in FreeSpaces
    /\ clock = 0
    /\ arg \in Arguments
    /\ pc = "start"
    /\ source = arg.source
    /\ destination = arg.destination
    /\ stats = NewStats
    /\ success = FALSE
    /\ total_bytes = 0
    /\ walk = << >>
    /\ verdict = Unverified
    /\ exc = "None"
    /\ fs0 = fs
    /\ began = FALSE
    /\ calls = 1
    /\ prev = [success |-> FALSE, stats |-> NewStats]
    /\ progress = NoProgress
    /\ estimated = 0
    /\ request = NoRequest
    /\ config = StoredConfig
    /\ memoir_handler = Data
    /\ response = NoResponse

----------------------------------------------------------------------------
(* migrate_data_directory, lines 161-278 *)

\* The handler of line 276 written as "except OSError": what path resolution
\* (RuntimeError) or the caller's callback raises is not caught.
Handler_OSErrorOnly(e) == IF e \in {"resolve", "callback"} THEN "raised" ELSE "except"

\* Where control goes when a statement inside the try block raises: the
\* handler of line 276 catches every Exception.
Handler(e) == "except"

Raise(e) ==
    /\ exc' = e
    /\ pc' = Handler(e)

\* return False, stats with stats['error'] left as it was.
ReturnError_Silent(e) ==
    /\ stats' = stats
    /\ success' = FALSE
    /\ pc' = "done"

\* return False, stats with stats['error'] set.
ReturnError(e) ==
    /\ stats' = [stats EXCEPT !.error = e]
    /\ success' = FALSE
    /\ pc' = "done"

\* Lines 173-197 with the destination called empty when it holds no file.
Precondition_FilesOnly(f, src, dst) ==
    IF ~Exists(f, src)
    THEN Error("", Msg("Source directory does not exist", src, 0, 0))
    ELSE IF ~IsDir(f, src)
    THEN Error("", Msg("Source is not a directory", src, 0, 0))
    ELSE IF src = dst
    THEN Error("", Msg("Source and destination are the same", Root, 0, 0))
    ELSE IF Exists(f, dst) /\ ~IsDir(f, dst)
    THEN Error("", Msg("Destination exists but is not a directory", dst, 0, 0))
    ELSE IF Exists(f, dst) /\ FilesUnder(f, dst) # {}
    THEN Error("", Msg("Destination directory is not empty", dst, 0, 0))
    ELSE NoError

\* Lines 173-197 with the destination examined before the paths are compared.
Precondition_DestinationFirst(f, src, dst) ==
    IF ~Exists(f, src)
    THEN Error("", Msg("Source directory does not exist", src, 0, 0))
    ELSE IF ~IsDir(f, src)
    THEN Error("", Msg("Source is not a directory", src, 0, 0))
    ELSE IF Exists(f, dst) /\ ~IsDir(f, dst)
    THEN Error("", Msg("Destination exists but is not a directory", dst, 0, 0))
    ELSE IF Exists(f, dst) /\ Children(f, dst) # {}
    THEN Error("", Msg("Destination directory is not empty", dst, 0, 0))
    ELSE IF src = dst
    THEN Error("", Msg("Source and destination are the same", Root, 0, 0))
    ELSE NoError

\* Lines 173-197: the first precondition that fails, or NoError.
Precondition(f, src, dst) ==
    IF ~Exists(f, src)
    THEN Error("", Msg("Source directory does not exist", src, 0, 0))
    ELSE IF ~IsDir(f, src)
    THEN Error("", Msg("Source is not a directory", src, 0, 0))
    ELSE IF src = dst
    THEN Error("", Msg("Source and destination are the same", Root, 0, 0))
    ELSE IF Exists(f, dst) /\ ~IsDir(f, dst)
    THEN Error("", Msg("Destination exists but is not a directory", dst, 0, 0))
    ELSE IF Exists(f, dst) /\ Children(f, dst) # {}
    THEN Error("", Msg("Destination directory is not empty", dst, 0, 0))
    ELSE NoError

\* Lines 169-197: resolve both paths, then validate source and destination.
Validate ==
    /\ pc = "start"
    /\ \E resolve_raises \in BOOLEAN :
        IF resolve_raises
        THEN /\ Raise("resolve")
             /\ UNCHANGED <<source, destination, stats, success>>
        ELSE LET s == Resolve(arg.source)
                 d == Resolve(arg.destination)
             IN  /\ source' = s
                 /\ destination' = d
                 /\ IF Precondition(fs, s, d) # NoError
                    THEN /\ ReturnError(Precondition(fs, s, d))
                         /\ UNCHANGED exc
                    ELSE /\ pc' = "space"
                         /\ UNCHANGED <<stats, success, exc>>
    /\ UNCHANGED <<fs, free, clock, arg, total_bytes, walk, verdict, fs0,
                   began, calls, prev, progress, estimated, apiVars>>

\* Lines 199-213 with the destination created before the free space is
\* compared.
CheckSpace_MkdirFirst ==
    /\ pc = "space"
    /\ total_bytes' = calculate_directory_size(fs, source)
    /\ fs' = IF MkdirRaises(fs, destination) THEN fs ELSE Mkdir(fs, destination)
    /\ LET measured == IF Exists(fs, destination) THEN destination ELSE Parent(destination)
       IN  \E usage_raises \in BOOLEAN :
            IF usage_raises \/ ~Exists(fs, measured)
            THEN /\ Raise("disk_usage")
                 /\ UNCHANGED <<stats, success>>
            ELSE IF BelowNeeded(free, total_bytes')
            THEN /\ ReturnError(Error("", Msg("Insufficient disk space", Root, total_bytes', free)))
                 /\ UNCHANGED exc
            ELSE /\ pc' = "mkdir"
                 /\ UNCHANGED <<stats, success, exc>>
    /\ UNCHANGED <<free, clock, arg, source, destination, walk, verdict, fs0,
                   began, calls, prev, progress, estimated, apiVars>>

\* Lines 199-210: the size of the source and the free-space check.
CheckSpace ==
    /\ pc = "space"
    /\ total_bytes' = calculate_directory_size(fs, source)
    /\ LET measured == IF Exists(fs, destination) THEN destination ELSE Parent(destination)
       IN  \E usage_raises \in BOOLEAN :
            IF usage_raises \/ ~Exists(fs, measured)
            THEN /\ Raise("disk_usage")
                 /\ UNCHANGED <<stats, success>>
            ELSE IF BelowNeeded(free, total_bytes')
            THEN /\ ReturnError(Error("", Msg("Insufficient disk space", Root, total_bytes', free)))
                 /\ UNCHANGED exc
            ELSE /\ pc' = "mkdir"
                 /\ UNCHANGED <<stats, success, exc>>
    /\ UNCHANGED <<fs, free, clock, arg, source, destination, walk, verdict,
                   fs0, began, calls, prev, progress, estimated, apiVars>>

\* A frame of the generator source.rglob('*'): the directory being visited
\* and the entries of its last scandir that are still to come.
Frame(dir, phase, items) == [dir |-> dir, phase |-> phase, items |-> items]

\* Line 213: destination.mkdir(parents=True, exist_ok=True); the for loop of
\* line 218 then starts the generator, which lists the source.
MakeDestination ==
    /\ pc = "mkdir"
    /\ began' = TRUE
    /\ \E mkdir_raises \in BOOLEAN :
        IF mkdir_raises \/ MkdirRaises(fs, destination)
        THEN /\ Raise("mkdir")
             /\ UNCHANGED <<fs, walk>>
        ELSE /\ fs' = Mkdir(fs, destination)
             /\ walk' = <<Frame(source, "yield", Children(fs', source))>>
             /\ pc' = "walk"
             /\ UNCHANGED exc
    /\ UNCHANGED <<free, clock, arg, source, destination, stats, success,
                   total_bytes, verdict, fs0, calls, prev, progress,
                   estimated, apiVars>>

Top == walk[Len(walk)]
SetTop(frame) == [walk EXCEPT ![Len(walk)] = frame]

\* The faults one pass through the loop body can meet.
BodyOutcomes == {"ok", "mkdir", "copy", "copy_partial", "stat", "callback"}

\* Lines 231-234: the counters after one more file of file_size bytes.
UpdateStats_LastFile(st, file_size) ==
    [st EXCEPT !.files_copied = @ + 1, !.bytes_copied = file_size]
UpdateStats(st, file_size) ==
    [st EXCEPT !.files_copied = @ + 1, !.bytes_copied = @ + file_size]

\* Line 238: the arguments handed to the progress callback, bytes_copied being
\* the running total after the file of file_size bytes.
CallbackArgs_FileSize(bytes_copied, file_size, total) == <<file_size, total>>
CallbackArgs(bytes_copied, file_size, total) == <<bytes_copied, total>>

\* The caller's callback takes note of the invocation and of its arguments.
progress_callback(p, args) ==
    [invocations |-> p.invocations + 1, bytes_copied |-> args[1],
     total_bytes |-> args[2]]

\* Lines 218-238 for an entry that is a regular file: create the parent,
\* copy, stat, update the stats, call the progress callback.
CopyItem ==
    /\ pc = "walk"
    /\ walk # << >>
    /\ Top.phase = "yield"
    /\ \E source_item \in Top.items, o \in BodyOutcomes :
        LET relative_path == RelativeTo(source_item, source)
            dest_item == Join(destination, relative_path)
            fs1 == Mkdir(fs, Parent(dest_item))
            cannot_open == Len(dest_item) > MaxDepth \/ IsDir(fs1, dest_item)
            fs2 == CopyFile(fs1, source_item, dest_item)
            file_size == fs[source_item].size
        IN  /\ IsFile(fs, source_item)
            /\ o = "callback" => arg.has_cb
            /\ IF o = "mkdir" \/ MkdirRaises(fs, Parent(dest_item))
               THEN /\ Raise("mkdir")
                    /\ walk' = << >>
                    /\ UNCHANGED <<fs, stats, progress>>
               ELSE IF o \in {"copy", "copy_partial"} \/ cannot_open
               THEN /\ Raise("copy2")
                    /\ walk' = << >>
                    /\ fs' = IF o = "copy_partial" /\ ~cannot_open
                             THEN TruncatedCopy(fs1, dest_item) ELSE fs1
                    /\ UNCHANGED <<stats, progress>>
               ELSE IF o = "stat"
               THEN /\ Raise("stat")
                    /\ walk' = << >>
                    /\ fs' = fs2
                    /\ UNCHANGED <<stats, progress>>
               ELSE /\ fs' = fs2
                    /\ stats' = UpdateStats(stats, file_size)
                    /\ progress' =
                         IF arg.has_cb
                         THEN progress_callback(progress,
                                  CallbackArgs(stats'.bytes_copied, file_size, total_bytes))
                         ELSE progress
                    /\ IF o = "callback"
                       THEN /\ Raise("callback")
                            /\ walk' = << >>
                       ELSE /\ walk' = SetTop([Top EXCEPT !.items = @ \ {source_item}])
                            /\ UNCHANGED <<pc, exc>>
    /\ UNCHANGED <<free, clock, arg, source, destination, success, total_bytes,
                   verdict, fs0, began, calls, prev, estimated, apiVars>>

\* Line 219 for an entry that is not a regular file: nothing is done.
SkipItem ==
    /\ pc = "walk"
    /\ walk # << >>
    /\ Top.phase = "yield"
    /\ \E source_item \in Top.items :
        /\ ~IsFile(fs, source_item)
        /\ walk' = SetTop([Top EXCEPT !.items = @ \ {source_item}])
    /\ UNCHANGED <<fs, free, clock, arg, pc, source, destination, stats,
                   success,
                   total_bytes, verdict, exc, fs0, began, calls, prev,
                   progress, estimated, apiVars>>

\* rglob: the entries of a directory are exhausted; it is listed again to
\* find the subdirectories to descend into.
Rescan ==
    /\ pc = "walk"
    /\ walk # << >>
    /\ Top.phase = "yield"
    /\ Top.items = {}
    /\ walk' = SetTop(Frame(Top.dir, "recurse",
                            {c \in Children(fs, Top.dir) : IsDir(fs, c)}))
    /\ UNCHANGED <<fs, free, clock, arg, pc, source, destination, stats,
                   success,
                   total_bytes, verdict, exc, fs0, began, calls, prev,
                   progress, estimated, apiVars>>

\* rglob: descend into a subdirectory and list it.
Descend ==
    /\ pc = "walk"
    /\ walk # << >>
    /\ Top.phase = "recurse"
    /\ \E d \in Top.items :
        walk' = Append(SetTop([Top EXCEPT !.items = @ \ {d}]),
                       Frame(d, "yield", Children(fs, d)))
    /\ UNCHANGED <<fs, free, clock, arg, pc, source, destination, stats,
                   success,
                   total_bytes, verdict, exc, fs0, began, calls, prev,
                   progress, estimated, apiVars>>

\* rglob: a directory is finished; when it was the source, the loop ends.
Ascend ==
    /\ pc = "walk"
    /\ walk # << >>
    /\ Top.phase = "recurse"
    /\ Top.items = {}
    /\ walk' = SubSeq(walk, 1, Len(walk) - 1)
    /\ pc' = IF Len(walk) = 1 THEN "verify" ELSE "walk"
    /\ UNCHANGED <<fs, free, clock, arg, source, destination, stats, success,
                   total_bytes, verdict, exc, fs0, began, calls, prev,
                   progress, estimated, apiVars>>

\* Line 242 without its test: the source is finalized whatever the answer.
AfterVerify_Unchecked(v) == "finalize"

\* Line 242: where control goes with the verifier's answer.
AfterVerify(v) == IF v.ok THEN "finalize" ELSE "cleanup"

\* Line 241: is_valid, message = verify_migration(source, destination).
Verify ==
    /\ pc = "verify"
    /\ \E verify_raises \in BOOLEAN :
        IF verify_raises
        THEN /\ Raise("verify")
             /\ UNCHANGED <<fs, verdict>>
        ELSE \E v \in verify_migration(fs, source, destination) :
                /\ verdict' = v
                /\ pc' = AfterVerify(v)
                /\ fs' = VerifyEffect(fs, source, destination)
                /\ UNCHANGED exc
    /\ UNCHANGED <<free, clock, arg, source, destination, stats, success,
                   total_bytes, walk, fs0, began, calls, prev, progress,
                   estimated, apiVars>>

\* Lines 243-250: delete the destination, swallowing a failure, and return
\* the verifier's message.
Cleanup ==
    /\ pc = "cleanup"
    /\ \E r \in RmtreeOutcomes(fs, destination) : fs' = r.fs
    /\ ReturnError(Error("Migration verification failed: ", verdict.msg))
    /\ UNCHANGED <<free, clock, arg, source, destination, total_bytes, walk,
                   verdict, exc, fs0, began, calls, prev, progress,
                   estimated, apiVars>>

\* shutil.copytree(s, d) stopped part-way: d and the copies of some entries
\* of s exist, a copied entry having its parent copied too.
PartialCopies(f, s) ==
    {X \in SUBSET Under(f, s) : \A p \in X : Parent(p) = s \/ Parent(p) \in X}
CopyTree(f, s, d, X) ==
    LET new == {Join(d, RelativeTo(p, s)) : p \in X \cup {s}}
    IN  [q \in DOMAIN f \cup new |->
            IF q \in new THEN f[Join(s, RelativeTo(q, d))] ELSE f[q]]

\* The outcomes of shutil.move(s, d), [ok, fs]: a destination that is a
\* directory receives s inside it; os.rename moves the tree, and when it
\* raises OSError the tree is copied with copytree and s is removed.
MoveOutcomes(f, s, d) ==
    LET real_dst == IF IsDir(f, d) THEN Join(d, <<Name(s)>>) ELSE d
    IN  IF \/ Exists(f, real_dst)
           \/ IsPrefix(s, real_dst)
           \/ Len(real_dst) > MaxDepth
        THEN {[ok |-> FALSE, fs |-> f]}
        ELSE {[ok |-> TRUE, fs |-> Rename(f, s, real_dst)]}
             \cup {[ok |-> FALSE, fs |-> f]}
             \cup {[ok |-> FALSE, fs |-> CopyTree(f, s, real_dst, X)] :
                      X \in PartialCopies(f, s)}
             \cup {[ok |-> FALSE, fs |-> Remove(CopyTree(f, s, real_dst, Under(f, s)), Y)] :
                      Y \in PartialDeletions(f, s)}

\* datetime.now().strftime("%Y%m%d_%H%M%S"): the time cut to whole seconds.
TicksPerSecond == 2
Timestamp(t) == ToString(t \div TicksPerSecond)
\* f"{source.name}.backup.{timestamp}"
BackupName(name, t) == name \o ".backup." \o Timestamp(t)

\* Lines 253-265 and 274: rename the source to its backup name.
FinalizeBackup ==
    /\ pc = "finalize"
    /\ arg.keep_backup
    /\ \E now \in clock..MaxClock :
        LET backup_path == Join(Parent(source), <<BackupName(Name(source), now)>>)
        IN  /\ clock' = now
            /\ \E m \in MoveOutcomes(fs, source, backup_path) :
                /\ fs' = m.fs
                /\ stats' = IF m.ok
                            THEN [stats EXCEPT !.backup_location = backup_path]
                            ELSE [stats EXCEPT !.error =
                                    Error("Warning: Could not create backup: ",
                                          Msg("move", Root, 0, 0))]
    /\ success' = TRUE
    /\ pc' = "done"
    /\ UNCHANGED <<free, arg, source, destination, total_bytes, walk, verdict,
                   exc, fs0, began, calls, prev, progress, estimated, apiVars>>

\* Lines 266-274: remove the source.
FinalizeDelete ==
    /\ pc = "finalize"
    /\ ~arg.keep_backup
    /\ \E r \in RmtreeOutcomes(fs, source) :
        /\ fs' = r.fs
        /\ stats' = IF r.ok
                    THEN stats
                    ELSE [stats EXCEPT !.error =
                            Error("Warning: Could not remove source directory: ",
                                  Msg("rmtree", Root, 0, 0))]
    /\ success' = TRUE
    /\ pc' = "done"
    /\ UNCHANGED <<free, clock, arg, source, destination, total_bytes, walk,
                   verdict, exc, fs0, began, calls, prev, progress,
                   estimated, apiVars>>

\* Lines 276-278: the catch-all handler.
Except ==
    /\ pc = "except"
    /\ ReturnError(Error("Migration failed: ", Msg(exc, Root, 0, 0)))
    /\ UNCHANGED <<fs, free, clock, arg, source, destination, total_bytes, walk,
                   verdict, exc, fs0, began, calls, prev, progress,
                   estimated, apiVars>>

\* The caller repeats the call with the same arguments.
CallAgain ==
    /\ pc = "done"
    /\ calls < MaxCalls
    /\ calls' = calls + 1
    /\ prev' = [success |-> success, stats |-> stats]
    /\ pc' = "start"
    /\ source' = arg.source
    /\ destination' = arg.destination
    /\ stats' = NewStats
    /\ success' = FALSE
    /\ total_bytes' = 0
    /\ walk' = << >>
    /\ verdict' = Unverified
    /\ exc' = "None"
    /\ fs0' = fs
    /\ began' = FALSE
    /\ progress' = NoProgress
    /\ UNCHANGED <<fs, free, clock, arg, estimated, apiVars>>

Next ==
    \/ Validate
    \/ CheckSpace
    \/ MakeDestination
    \/ CopyItem
    \/ SkipItem
    \/ Rescan
    \/ Descend
    \/ Ascend
    \/ Verify
    \/ Cleanup
    \/ FinalizeBackup
    \/ FinalizeDelete
    \/ Except
    \/ CallAgain

Spec == Init /\ [][Next]_vars

----------------------------------------------------------------------------
(* verify_migration called on its own, as the tests call it *)

\* Files at the top of the source beside the application's layout.
MaxExtra == 3
\* How many edits separate the destination from a copy of the source.
MaxEdits == 2

ExtraEntries(n) ==
    {<<Data \o <<"note" \o ToString(i)>>, File(10 + i, 1)>> : i \in 1..n}

\* The source trees: the application's layout with some more files.
VerifySources ==
    {SourceEntries(m, c, i) \cup ExtraEntries(n) :
        m \in BOOLEAN, c \in Presence, i \in Presence, n \in 0..MaxExtra}

\* The copy of the source at /new, empty directories included.
CopyOf(entries) ==
    {<<Join(New, RelativeTo(e[1], Data)), e[2]>> : e \in entries}

\* What can be wrong with a copy: a file with other content (of the same
\* length unless the file was empty), an entry missing with all below it, a
\* directory replaced by a file, a file the source does not have.
Altered(node) == File(node.data + 100, IF node.size = 0 THEN 1 ELSE node.size)
Edits(copy) ==
    {[op |-> "alter", path |-> e[1]] : e \in {c \in copy : c[2].kind = "file"}}
    \cup {[op |-> "drop", path |-> e[1]] : e \in copy}
    \cup {[op |-> "to_file", path |-> e[1]] : e \in {c \in copy : c[2].kind = "dir"}}
    \cup {[op |-> "add", path |-> New \o <<"extra.txt">>]}
ApplyEdits(copy, E) ==
    LET altered == {IF [op |-> "alter", path |-> e[1]] \in E
                    THEN <<e[1], Altered(e[2])>> ELSE e : e \in copy}
        gone(p) == \E d \in E : \/ d.op = "drop" /\ IsPrefix(d.path, p)
                                \/ d.op = "to_file" /\ IsPrefix(d.path, p)
        kept == {e \in altered : ~gone(e[1])}
        files == {<<d.path, File(6, 1)>> :
                     d \in {x \in E : x.op = "to_file" /\ ~gone(Parent(x.path))}}
        added == {<<d.path, File(5, 1)>> :
                     d \in {x \in E : x.op = "add" /\ ~gone(Parent(x.path))}}
    IN  kept \cup files \cup added

VerifyFilesystems ==
    UNION {{FsOf({<<Root, Dir>>} \cup s \cup ApplyEdits(CopyOf(s), E)) :
               E \in {X \in SUBSET Edits(CopyOf(s)) : Cardinality(X) <= MaxEdits}} :
           s \in VerifySources}

InitVerify ==
    /\ fs \in VerifyFilesystems
    /\ free = 0
    /\ clock = 0
    /\ arg = [source |-> Data, destination |-> New, keep_backup |-> FALSE,
              has_cb |-> FALSE]
    /\ pc = "verify_call"
    /\ source = Data
    /\ destination = New
    /\ stats = NewStats
    /\ success = FALSE
    /\ total_bytes = 0
    /\ walk = << >>
    /\ verdict = Unverified
    /\ exc = "None"
    /\ fs0 = fs
    /\ began = FALSE
    /\ calls = 1
    /\ prev = [success |-> FALSE, stats |-> NewStats]
    /\ progress = NoProgress
    /\ estimated = 0
    /\ request = NoRequest
    /\ config = StoredConfig
    /\ memoir_handler = Data
    /\ response = NoResponse

\* is_valid, message = verify_migration(source, destination)
VerifyCall ==
    /\ pc = "verify_call"
    /\ \E v \in verify_migration(fs, source, destination) : verdict' = v
    /\ fs' = VerifyEffect(fs, source, destination)
    /\ pc' = "verify_done"
    /\ UNCHANGED <<free, clock, arg, source, destination, stats, success,
                   total_bytes, walk, exc, fs0, began, calls, prev, progress,
                   estimated, apiVars>>

NextVerify == VerifyCall

SpecVerify == InitVerify /\ [][NextVerify]_vars

----------------------------------------------------------------------------
(* estimate_migration_time, lines 281-317 *)

\* 1024 * 1024, and the two assumed speeds in MB/s.
MiB == 1048576
SameDriveSpeed == 100
OtherDriveSpeed == 50

\* Seconds are counted in units of 1/EstimateDen second, in which both
\* quotients size_mb / speed_mb_s are whole numbers.
EstimateDen == MiB * SameDriveSpeed

\* str(path.resolve().parts[0]): the drive or root of the resolved path.
Drive(p) == Resolve(p)[1]

\* Lines 298-311: the speed assumed, 50 when resolving raises.
speed_mb_s(src, dst, resolve_raises) ==
    IF resolve_raises THEN OtherDriveSpeed
    ELSE IF Drive(src) = Drive(dst) THEN SameDriveSpeed
    ELSE OtherDriveSpeed

\* Line 317: max(1.0, estimated_seconds).
AtLeastOneSecond_Unbounded(estimated_seconds) == estimated_seconds
AtLeastOneSecond(estimated_seconds) ==
    IF estimated_seconds < EstimateDen THEN EstimateDen ELSE estimated_seconds

\* Lines 294 and 313-317: total_size / (1024 * 1024) / speed_mb_s, at least 1.
estimate_migration_time(f, src, dst, resolve_raises) ==
    LET total_size == calculate_directory_size(f, src)
        speed == speed_mb_s(src, dst, resolve_raises)
    IN  AtLeastOneSecond(total_size * (SameDriveSpeed \div speed))

\* The directories whose migration is estimated: on drive C:, absent, empty or
\* holding up to MaxEstimateFiles files of these sizes.
MaxEstimateFiles == 2
EstimateSizes == {0, 1, 50 * MiB, 100 * MiB, 300 * MiB}
DriveC == <<"C:">>
DriveD == <<"D:">>
EstimateSource == <<"C:", "data">>
EstimateDestinations ==
    {<<"C:", "new">>, <<"D:", "new">>, <<"C:", "data">>, <<"D:", "tmp", "..", "new">>}
EstimateFile(i) == EstimateSource \o <<"file" \o ToString(i)>>
EstimateFilesystems ==
    {FsOf({<<Root, Dir>>, <<DriveC, Dir>>, <<DriveD, Dir>>})}
    \cup UNION {{FsOf({<<Root, Dir>>, <<DriveC, Dir>>, <<DriveD, Dir>>,
                       <<EstimateSource, Dir>>}
                      \cup {<<EstimateFile(i), File(i, sizes[i])>> : i \in 1..n}) :
                    sizes \in [1..n -> EstimateSizes]} :
                n \in 0..MaxEstimateFiles}

InitEstimate ==
    /\ fs \in EstimateFilesystems
    /\ free = 0
    /\ clock = 0
    /\ arg \in [source : {EstimateSource}, destination : EstimateDestinations,
                keep_backup : {FALSE}, has_cb : {FALSE}]
    /\ pc = "estimate_call"
    /\ source = arg.source
    /\ destination = arg.destination
    /\ stats = NewStats
    /\ success = FALSE
    /\ total_bytes = 0
    /\ walk = << >>
    /\ verdict = Unverified
    /\ exc = "None"
    /\ fs0 = fs
    /\ began = FALSE
    /\ calls = 1
    /\ prev = [success |-> FALSE, stats |-> NewStats]
    /\ progress = NoProgress
    /\ estimated = 0
    /\ request = NoRequest
    /\ config = StoredConfig
    /\ memoir_handler = Data
    /\ response = NoResponse

\* seconds = estimate_migration_time(source, destination)
EstimateCall ==
    /\ pc = "estimate_call"
    /\ \E resolve_raises \in BOOLEAN :
        /\ estimated' = estimate_migration_time(fs, source, destination, resolve_raises)
        /\ exc' = IF resolve_raises THEN "resolve" ELSE "None"
    /\ pc' = "estimate_done"
    /\ UNCHANGED <<fs, free, clock, arg, source, destination, stats, success,
                   total_bytes, walk, verdict, fs0, began, calls, prev, progress,
                   apiVars>>

NextEstimate == EstimateCall

SpecEstimate == InitEstimate /\ [][NextEstimate]_vars

----------------------------------------------------------------------------
(* The endpoint POST /api/settings/migrate-data, app.py lines 554-614 *)

\* config_manager.validate_data_path(path): the outcomes [ok, message, fs].
\* It creates a missing directory, and probes for write access by creating
\* and removing a file, which may raise.
PathVerdict(ok, text, path, n, f) ==
    [ok |-> ok, message |-> Msg(text, path, n, 0), fs |-> f]
validate_data_path(f, path, current_data_dir) ==
    IF Exists(f, path)
    THEN IF ~IsDir(f, path)
         THEN {PathVerdict(FALSE, "Path exists but is not a directory", Root, 0, f)}
         ELSE IF path = Resolve(current_data_dir)
         THEN {PathVerdict(FALSE, "This is already your current data directory",
                           Root, 0, f)}
         ELSE IF Children(f, path) # {}
         THEN {PathVerdict(FALSE, "Directory already exists and contains", Root,
                           Cardinality(Children(f, path)), f)}
         ELSE {PathVerdict(TRUE, "Path is valid and writable", Root, 0, f),
               PathVerdict(FALSE, "Cannot write to directory", Root, 0, f)}
    ELSE IF ~Exists(f, Parent(path))
    THEN {PathVerdict(FALSE, "Parent directory does not exist", Parent(path), 0, f)}
    ELSE IF ~IsDir(f, Parent(path))
    THEN {PathVerdict(FALSE, "Parent path is not a directory", Parent(path), 0, f)}
    ELSE IF MkdirRaises(f, path)
    THEN {PathVerdict(FALSE, "Cannot create directory", path, 0, f)}
    ELSE {PathVerdict(TRUE, "Path is valid and writable (directory created)",
                      Root, 0, Mkdir(f, path)),
          PathVerdict(FALSE, "Cannot create directory", path, 0, f),
          PathVerdict(FALSE, "Cannot create directory", path, 0, Mkdir(f, path))}

\* jsonify({'status': 'error', 'message': message}), status
ErrorResponse(status, m) ==
    [status |-> status, message |-> m.text, details |-> NoError, data |-> NewStats]
\* Lines 605-609: the answer to a migration that returned success = False.
FailureResponse(st) ==
    [status |-> 500, message |-> "Migration failed", details |-> st.error,
     data |-> NewStats]
\* Lines 598-604: files_copied, bytes_copied and backup_location of stats.
SuccessResponse(st) ==
    [status |-> 200, message |-> "success", details |-> NoError,
     data |-> [NewStats EXCEPT !.files_copied = st.files_copied,
                               !.bytes_copied = st.bytes_copied,
                               !.backup_location = st.backup_location]]

\* What has not been passed to migrate_data_directory yet.
NoArguments ==
    [source |-> NoPath, destination |-> NoPath, keep_backup |-> TRUE, has_cb |-> FALSE]

\* The requests: any of the destinations, or no new_path at all.
Requests == [new_path : Destinations \cup {NoPath}, keep_backup : BOOLEAN]

InitApi ==
    /\ fs \in InitialFilesystems
    /\ free \in FreeSpaces
    /\ clock = 0
    /\ arg = NoArguments
    /\ pc = "api_start"
    /\ source = arg.source
    /\ destination = arg.destination
    /\ stats = NewStats
    /\ success = FALSE
    /\ total_bytes = 0
    /\ walk = << >>
    /\ verdict = Unverified
    /\ exc = "None"
    /\ fs0 = fs
    /\ began = FALSE
    /\ calls = 1
    /\ prev = [success |-> FALSE, stats |-> NewStats]
    /\ progress = NoProgress
    /\ estimated = 0
    /\ request \in Requests
    /\ config = StoredConfig
    /\ memoir_handler = Data
    /\ response = NoResponse

\* Lines 558-579: read the request, validate the new path and call
\* migrate_data_directory(old_path, new_path, keep_backup=keep_backup).
ApiReceive ==
    /\ pc = "api_start"
    /\ IF request.new_path = NoPath
       THEN /\ response' = ErrorResponse(400, Msg("No path provided", Root, 0, 0))
            /\ pc' = "api_done"
            /\ UNCHANGED <<fs, fs0, arg, source, destination>>
       ELSE \E resolve_raises \in BOOLEAN :
            IF resolve_raises
            THEN /\ response' = ErrorResponse(500, Msg("resolve", Root, 0, 0))
                 /\ pc' = "api_done"
                 /\ UNCHANGED <<fs, fs0, arg, source, destination>>
            ELSE LET new_path == Resolve(request.new_path)
                     old_path == config.data_directory
                 IN  \E v \in validate_data_path(fs, new_path, old_path) :
                        /\ fs' = v.fs
                        /\ fs0' = v.fs
                        /\ IF ~v.ok
                           THEN /\ response' = ErrorResponse(400, v.message)
                                /\ pc' = "api_done"
                                /\ UNCHANGED <<arg, source, destination>>
                           ELSE /\ arg' = [source |-> old_path,
                                           destination |-> new_path,
                                           keep_backup |-> request.keep_backup,
                                           has_cb |-> FALSE]
                                /\ source' = old_path
                                /\ destination' = new_path
                                /\ pc' = "start"
                                /\ UNCHANGED response
    /\ UNCHANGED <<free, clock, stats, success, total_bytes, walk, verdict, exc,
                   began, calls, prev, progress, estimated, request, config,
                   memoir_handler>>

\* MemoirHandler(data_dir): lines 34-37 of markdown_handler.py create
\* chapters/, chapters/deleted/ and images/.
HandlerDirs(data_dir) ==
    {Join(data_dir, <<"chapters">>), Join(data_dir, <<"chapters", "deleted">>),
     Join(data_dir, <<"images">>)}
MemoirHandlerRaises(f, data_dir) == \E d \in HandlerDirs(data_dir) : MkdirRaises(f, d)
MemoirHandler(f, data_dir) ==
    Mkdir(Mkdir(Mkdir(f, Join(data_dir, <<"chapters">>)),
                Join(data_dir, <<"chapters", "deleted">>)),
          Join(data_dir, <<"images">>))

\* Lines 581-611: after migrate_data_directory returned. On success the
\* configuration is saved and the handler replaced, either of which may
\* raise into the handler of line 613.
ApiOutcomes == {"ok", "save_config", "MemoirHandler"}
ApiRespond ==
    /\ pc = "done"
    /\ pc' = "api_done"
    /\ IF success
       THEN \E o \in ApiOutcomes :
            LET new_path == arg.destination
                saved == [data_directory |-> new_path,
                          last_migration |-> [from |-> arg.source, to |-> new_path,
                                              backup_kept |-> arg.keep_backup]]
            IN  IF o = "save_config"
                THEN /\ response' = ErrorResponse(500, Msg("save_config", Root, 0, 0))
                     /\ UNCHANGED <<fs, config, memoir_handler>>
                ELSE IF o = "MemoirHandler" \/ MemoirHandlerRaises(fs, new_path)
                THEN /\ config' = saved
                     /\ response' = ErrorResponse(500, Msg("MemoirHandler", Root, 0, 0))
                     /\ UNCHANGED <<fs, memoir_handler>>
                ELSE /\ config' = saved
                     /\ memoir_handler' = new_path
                     /\ fs' = MemoirHandler(fs, new_path)
                     /\ response' = SuccessResponse(stats)
       ELSE /\ response' = FailureResponse(stats)
            /\ UNCHANGED <<fs, config, memoir_handler>>
    /\ UNCHANGED <<free, clock, arg, source, destination, stats, success,
                   total_bytes, walk, verdict, exc, fs0, began, calls, prev,
                   progress, estimated, request>>

NextApi ==
    \/ ApiReceive
    \/ Validate
    \/ CheckSpace
    \/ MakeDestination
    \/ CopyItem
    \/ SkipItem
    \/ Rescan
    \/ Descend
    \/ Ascend
    \/ Verify
    \/ Cleanup
    \/ FinalizeBackup
    \/ FinalizeDelete
    \/ Except
    \/ ApiRespond

SpecApi == InitApi /\ [][NextApi]_vars

----------------------------------------------------------------------------
(* What the claims speak about *)

Src == Resolve(arg.source)
Dst == Resolve(arg.destination)

\* The tree below root, by relative path: what a recursive diff compares.
TreeOf(f, root) ==
    [r \in {RelativeTo(p, root) : p \in Under(f, root)} |-> f[Join(root, r)]]

Returned == pc = "done"
Failed == Returned /\ ~success
ErrorText == stats.error.msg.text

\* The source has the relative paths and the contents it had at call time.
SourceUnchanged ==
    /\ Exists(fs, Src) <=> Exists(fs0, Src)
    /\ Exists(fs0, Src) => fs[Src] = fs0[Src]
    /\ TreeOf(fs, Src) = TreeOf(fs0, Src)

\* No file or directory of the source at call time has been renamed, deleted
\* or rewritten.
SourceKept ==
    \A p \in DOMAIN fs0 : IsPrefix(Src, p) => (p \in DOMAIN fs /\ fs[p] = fs0[p])

\* The preconditions of the call, on the filesystem at call time.
SourceMissing == ~Exists(fs0, Src)
SourceNotDir == ~IsDir(fs0, Src)
SamePath == Src = Dst
DestNotDir == Exists(fs0, Dst) /\ ~IsDir(fs0, Dst)
DestNotEmpty == IsDir(fs0, Dst) /\ Children(fs0, Dst) # {}
SourceSize == calculate_directory_size(fs0, Src)
TooLittleSpace == 10 * free < 11 * SourceSize
PathsValid ==
    ~SourceMissing /\ ~SourceNotDir /\ ~SamePath /\ ~DestNotDir /\ ~DestNotEmpty

PreconditionTexts ==
    {"Source directory does not exist", "Source is not a directory",
     "Source and destination are the same",
     "Destination exists but is not a directory",
     "Destination directory is not empty", "Insufficient disk space"}
FailedPrecondition ==
    Failed /\ stats.error.prefix = "" /\ ErrorText \in PreconditionTexts

----------------------------------------------------------------------------
(* C1 *)

\* C1: whenever the call returns success = false, by any path, no file or
\* directory of the source has been renamed, deleted or rewritten.
C1_SourceIntactOnFailure == Failed => SourceKept

----------------------------------------------------------------------------
(* C2 *)

\* A step that removes or rewrites an entry of the source tree (entries of a
\* destination lying inside the source aside): the rename or the delete.
SourceMutated ==
    \E p \in DOMAIN fs :
        /\ IsPrefix(Src, p)
        /\ ~IsPrefix(Dst, p)
        /\ p \notin DOMAIN fs' \/ fs'[p] # fs[p]

----------------------------------------------------------------------------
(* C3 *)

\* C3: when the preconditions hold (the free-space check passing as the code
\* evaluates it) and nothing raises, a call with keep_backup = false succeeds
\* and leaves at the destination a tree with the relative paths and the
\* contents the source had at call time.
C3_DestinationEqualsSource ==
    (/\ Returned
     /\ ~arg.keep_backup
     /\ PathsValid
     /\ ~TooLittleSpace
     /\ ~BelowNeeded(free, SourceSize)
     /\ exc = "None")
    => (success /\ TreeOf(fs, Dst) = TreeOf(fs0, Src))

----------------------------------------------------------------------------
(* C4 *)

\* C4: the preconditions are evaluated in the order source exists, source is
\* a directory, the paths differ, the destination is a directory, the
\* destination is empty, the free space suffices; the error returned is that
\* of the first one violated.
C4_FirstViolatedPreconditionWins ==
    (Returned /\ exc = "None") =>
        /\ SourceMissing => ErrorText = "Source directory does not exist"
        /\ (~SourceMissing /\ SourceNotDir) => ErrorText = "Source is not a directory"
        /\ (~SourceMissing /\ ~SourceNotDir /\ SamePath)
             => ErrorText = "Source and destination are the same"
        /\ (~SourceMissing /\ ~SourceNotDir /\ ~SamePath /\ DestNotDir)
             => ErrorText = "Destination exists but is not a directory"
        /\ (~SourceMissing /\ ~SourceNotDir /\ ~SamePath /\ ~DestNotDir /\ DestNotEmpty)
             => ErrorText = "Destination directory is not empty"
        /\ (PathsValid /\ TooLittleSpace) => ErrorText = "Insufficient disk space"

\* Source and destination are the same non-empty directory, and the call
\* has reported that they are the same.
C4_Witness ==
    /\ Returned
    /\ SamePath
    /\ DestNotEmpty
    /\ ErrorText = "Source and destination are the same"

----------------------------------------------------------------------------
(* C5 *)

\* C5: a call that fails at a precondition check leaves the filesystem as it
\* was, and its record has files_copied = 0, bytes_copied = 0 and no
\* backup_location.
C5_PreconditionFailureChangesNothing ==
    FailedPrecondition =>
        /\ fs = fs0
        /\ stats.files_copied = 0
        /\ stats.bytes_copied = 0
        /\ stats.backup_location = NoPath

\* A call over a valid source and an absent destination has failed for lack
\* of space.
C5_Witness ==
    /\ FailedPrecondition
    /\ ErrorText = "Insufficient disk space"
    /\ PathsValid
    /\ ~Exists(fs0, Dst)
    /\ SourceSize > 0

----------------------------------------------------------------------------
(* C6 *)

NotEmptyFailure(ok, st) ==
    ~ok /\ st.error = Error("", Msg("Destination directory is not empty", Dst, 0, 0))

\* C6, as stated: a destination that is a directory with at least one entry
\* makes the call fail with the 'not empty' error, source and destination
\* being left as they were.
C6_NonEmptyDestinationRejected ==
    (Returned /\ DestNotEmpty) =>
        /\ NotEmptyFailure(success, stats)
        /\ SourceUnchanged
        /\ TreeOf(fs, Dst) = TreeOf(fs0, Dst)

\* C6, amended: when path resolution raises nothing, the source exists, is a
\* directory and is not the destination, a destination that is a directory
\* with at least one entry makes the call fail with the 'not empty' error,
\* source and destination being left as they were; the repeated call returns
\* what the first one returned.
C6_NonEmptyDestinationRejectedForValidSource ==
    (/\ Returned
     /\ exc = "None"
     /\ ~SourceMissing
     /\ ~SourceNotDir
     /\ ~SamePath
     /\ DestNotEmpty)
    => /\ NotEmptyFailure(success, stats)
       /\ SourceUnchanged
       /\ TreeOf(fs, Dst) = TreeOf(fs0, Dst)
       /\ (calls > 1 /\ NotEmptyFailure(prev.success, prev.stats)) => stats = prev.stats

\* The call was rejected twice for a destination whose only entry is an
\* empty subdirectory.
C6_Witness ==
    /\ Returned
    /\ calls = 2
    /\ NotEmptyFailure(prev.success, prev.stats)
    /\ NotEmptyFailure(success, stats)
    /\ Children(fs0, Dst) # {}
    /\ \A c \in Children(fs0, Dst) : IsDir(fs0, c)
    /\ IsDir(fs0, Src)

----------------------------------------------------------------------------
(* C7 *)

\* The free-space check has passed: the call went on to the copy phase.
Proceeded == pc = "mkdir" \/ began

\* C7: with valid paths and the free space F measured, the call goes on to
\* the copy phase if and only if 10*F >= 11*S, S being the size of the
\* source, and fails with the insufficient-space error exactly when
\* 10*F < 11*S.
C7_SpaceThreshold ==
    (/\ pc \notin {"start", "space"}
     /\ PathsValid
     /\ exc \notin {"resolve", "disk_usage"})
    => /\ Proceeded <=> ~TooLittleSpace
       /\ (Failed /\ ErrorText = "Insufficient disk space") <=> TooLittleSpace

----------------------------------------------------------------------------
(* C8 *)

\* C8: when verify_migration returns is_valid = false the call returns
\* success = false with the verifier's message behind 'Migration verification
\* failed: ', sets no backup_location and leaves the source untouched.
C8_VerificationFailure ==
    (Returned /\ verdict # Unverified /\ ~verdict.ok) =>
        /\ ~success
        /\ stats.error = Error("Migration verification failed: ", verdict.msg)
        /\ stats.backup_location = NoPath
        /\ SourceKept

----------------------------------------------------------------------------
(* C9 *)

\* C9: a call that fails after the copy phase has begun leaves no file under
\* the destination.
C9_DestinationCleanedOnFailure == (Failed /\ began) => FilesUnder(fs, Dst) = {}

----------------------------------------------------------------------------
(* C10 *)

\* C10: no exception leaves the call: whatever raises, the call goes on to
\* return, and a returned failure carries an error message.
C10_NoExceptionEscapes ==
    /\ pc # "raised"
    /\ pc # "done" => ENABLED Next
    /\ Failed => stats.error # NoError

\* The progress callback raised after a file had been copied, and the call
\* returned a failure.
C10_Witness ==
    /\ Failed
    /\ exc = "callback"
    /\ stats.error = Error("Migration failed: ", Msg("callback", Root, 0, 0))
    /\ stats.files_copied > 0

----------------------------------------------------------------------------
(* C11 *)

\* The call succeeded with keep_backup = true and the rename went through.
BackupMade ==
    Returned /\ success /\ arg.keep_backup /\ stats.backup_location # NoPath

\* C11: after a success with keep_backup = true whose rename succeeded, the
\* source path is gone, backup_location is the sibling of the source named
\* <source-name>.backup.<timestamp>, and that path is a directory whose tree
\* is the tree the source had at call time.
C11_BackupHoldsSource ==
    BackupMade =>
        /\ ~Exists(fs, Src)
        /\ stats.backup_location =
               Join(Parent(Src), <<BackupName(Name(Src), clock)>>)
        /\ IsDir(fs, stats.backup_location)
        /\ TreeOf(fs, stats.backup_location) = TreeOf(fs0, Src)

----------------------------------------------------------------------------
(* C12 *)

\* The call succeeded with keep_backup = false and the delete went through.
SourceDeleted ==
    Returned /\ success /\ ~arg.keep_backup /\ stats.error = NoError

\* The sibling paths of the source that carry a backup name.
BackupPaths ==
    {Join(Parent(Src), <<BackupName(Name(Src), t)>>) : t \in 0..MaxClock}

\* The destination is a directory holding every file the source held at call
\* time, with its content.
DestinationHoldsFiles ==
    /\ IsDir(fs, Dst)
    /\ \A p \in FilesUnder(fs0, Src) :
           LET q == Join(Dst, RelativeTo(p, Src))
           IN  q \in DOMAIN fs /\ fs[q] = fs0[p]

\* C12: after a success with keep_backup = false whose delete succeeded, the
\* source path is gone, backup_location is None, the call has created no
\* <source-name>.backup.* directory, and the destination exists with all the
\* files.
C12_SourceDeletedDestinationKept ==
    SourceDeleted =>
        /\ ~Exists(fs, Src)
        /\ stats.backup_location = NoPath
        /\ \A b \in BackupPaths : Exists(fs, b) => Exists(fs0, b)
        /\ DestinationHoldsFiles

----------------------------------------------------------------------------
(* C13 *)

\* The tree at the destination is the tree that was verified: the step that
\* finalizes changes nothing at or below the destination.
DestinationUntouched ==
    /\ Exists(fs', Dst) <=> Exists(fs, Dst)
    /\ TreeOf(fs', Dst) = TreeOf(fs, Dst)

\* C13: when the rename or the delete of the source fails, the call still
\* returns success = true, error starts with "Warning:", backup_location
\* stays None, and the verified destination is left as it was.
C13_FinalizationFailureIsWarning ==
    [][(pc = "finalize" /\ stats'.error # NoError) =>
          /\ success'
          /\ stats'.error.prefix \in {"Warning: Could not create backup: ",
                                      "Warning: Could not remove source directory: "}
          /\ stats'.backup_location = NoPath
          /\ DestinationUntouched]_vars

----------------------------------------------------------------------------
(* C14 *)

\* The regular files below the source at call time.
SourceFiles == FilesUnder(fs0, Src)

\* C14: on every success files_copied is the number of regular files below
\* the source at call time and bytes_copied is the sum of their sizes; a
\* source without files passes the preconditions into a call that creates the
\* destination directory, counts 0 and 0, and succeeds unless something
\* raises.
C14_CountersMatchSource ==
    /\ (Returned /\ success) =>
           /\ stats.files_copied = Cardinality(SourceFiles)
           /\ stats.bytes_copied = SumSizes(fs0, SourceFiles)
    /\ (PathsValid /\ SourceFiles = {} /\ pc \in {"walk", "verify", "finalize"}) =>
           IsDir(fs, Dst)
    /\ (Returned /\ PathsValid /\ SourceFiles = {} /\ exc = "None") =>
           /\ success
           /\ began
           /\ stats.files_copied = 0
           /\ stats.bytes_copied = 0

\* A source holding three files of 50 bytes in all has been migrated.
C14_Witness ==
    /\ Returned /\ success
    /\ calls = 1
    /\ stats.files_copied = 3
    /\ stats.bytes_copied = 50

\* A source without files has been migrated.
C14_WitnessEmpty ==
    /\ Returned /\ success
    /\ SourceFiles = {}
    /\ Children(fs0, Src) # {}
    /\ ~IsPrefix(Src, Dst)
    /\ IsDir(fs, Dst)

----------------------------------------------------------------------------
(* C15 *)

\* A step in which the progress callback is invoked.
Invoked == progress'.invocations = progress.invocations + 1

\* A step in which one more file is counted as copied.
FileCopied == stats'.files_copied = stats.files_copied + 1

\* The step has copied a file of the source whose size is the growth of the
\* callback's first argument.
GrowsByCopiedFile ==
    \E source_item \in FilesUnder(fs, Src) :
        LET dest_item == Join(Dst, RelativeTo(source_item, Src))
        IN  /\ dest_item \in DOMAIN fs'
            /\ fs'[dest_item] = fs[source_item]
            /\ progress'.bytes_copied = progress.bytes_copied + fs[source_item].size

\* C15: a progress callback is invoked after each file copy; its first
\* argument never decreases and grows by the size of the file just copied,
\* its second argument is in every invocation the source size computed
\* before copying, it is not invoked before validation has passed, and on
\* success the first argument of the last invocation is bytes_copied of the
\* returned record.
C15_ProgressReports ==
    [][/\ (FileCopied /\ arg.has_cb) => Invoked
       /\ Invoked =>
            /\ FileCopied
            /\ began
            /\ progress'.bytes_copied >= progress.bytes_copied
            /\ GrowsByCopiedFile
            /\ progress'.total_bytes = calculate_directory_size(fs0, Src)
            /\ progress.invocations > 0 =>
                   progress'.total_bytes = progress.total_bytes
       /\ (progress'.invocations > 0 /\ pc' = "done" /\ success') =>
            progress'.bytes_copied = stats'.bytes_copied]_vars

\* A call with a callback has succeeded after three invocations, the last
\* one reporting all 50 bytes.
C15_Witness ==
    /\ Returned /\ success
    /\ progress = [invocations |-> 3, bytes_copied |-> 50, total_bytes |-> 50]

----------------------------------------------------------------------------
(* C16 *)

\* C16: every invocation of the progress callback has
\* 0 < bytes_copied <= total_bytes; stated here is the upper bound, the
\* running total never exceeding the size the source had before copying.
C16_ProgressWithinTotal ==
    progress.invocations > 0 => progress.bytes_copied <= progress.total_bytes

----------------------------------------------------------------------------
(* C17 *)

VerifyReturned == pc = "verify_done"

\* The destination is a complete copy of the source except that the content
\* of the file at relative path r has been altered.
CopyWithAltered(r) ==
    LET s == TreeOf(fs, Src)
        d == TreeOf(fs, Dst)
    IN  /\ IsDir(fs, Dst)
        /\ DOMAIN d = DOMAIN s
        /\ r \in DOMAIN s
        /\ s[r].kind = "file" /\ d[r].kind = "file"
        /\ d[r].data # s[r].data
        /\ \A q \in DOMAIN s \ {r} : d[q] = s[q]

RelativePaths == {RelativeTo(p, Src) : p \in Under(fs, Src)}

\* C17: for every source tree and every destination that is a complete copy
\* of it except for the altered content of exactly one file, verify_migration
\* returns is_valid = false with a message naming that file's relative path.
C17_CorruptionDetected ==
    VerifyReturned =>
        \A r \in RelativePaths :
            CopyWithAltered(r) =>
                verdict = Invalid(Msg("Checksum mismatch for", r, 0, 0))

\* The source passes the structural checks against a copy of itself: it has
\* no memoir.json, or it has chapters/ and images/.
SourceLaidOut ==
    Exists(fs, Join(Src, <<"memoir.json">>)) =>
        (IsDir(fs, Join(Src, <<"chapters">>)) /\ IsDir(fs, Join(Src, <<"images">>)))

\* C17 as the code has it: the same for every source tree of at most 5
\* regular files, which the sample of min(5, n) files covers whole, that has
\* chapters/ and images/ whenever it has memoir.json.
C17_CorruptionDetectedWithinSample ==
    (/\ VerifyReturned
     /\ Cardinality(FilesUnder(fs, Src)) <= SampleSize
     /\ SourceLaidOut) =>
        \A r \in RelativePaths :
            CopyWithAltered(r) =>
                verdict = Invalid(Msg("Checksum mismatch for", r, 0, 0))

\* The altered copy of a file of a source of five files has been reported.
C17_Witness ==
    /\ VerifyReturned
    /\ Cardinality(FilesUnder(fs, Src)) = SampleSize
    /\ CopyWithAltered(<<"chapters", "ch1.md">>)
    /\ verdict = Invalid(Msg("Checksum mismatch for", <<"chapters", "ch1.md">>, 0, 0))

----------------------------------------------------------------------------
(* C18 *)

\* The checks of lines 73-94 pass: the destination is a directory, and when
\* the source has memoir.json the destination has it too, with chapters/ and
\* images/.
StructureFound ==
    /\ IsDir(fs, Dst)
    /\ Exists(fs, Join(Src, <<"memoir.json">>)) =>
          /\ Exists(fs, Join(Dst, <<"memoir.json">>))
          /\ IsDir(fs, Join(Dst, <<"chapters">>))
          /\ IsDir(fs, Join(Dst, <<"images">>))

SourceFileCount == Cardinality(FilesUnder(fs, Src))
DestFileCount == Cardinality(FilesUnder(fs, Dst))

\* C18: when the earlier structural checks pass and the recursive counts of
\* regular files differ, verify_migration returns is_valid = false with the
\* "File count mismatch" message carrying both counts, whatever the sample.
C18_CountMismatchReported ==
    (VerifyReturned /\ StructureFound /\ SourceFileCount # DestFileCount) =>
        verdict = Invalid(Msg("File count mismatch", Root,
                              SourceFileCount, DestFileCount))

\* A destination with one file more than the source has been reported.
C18_Witness ==
    /\ VerifyReturned
    /\ StructureFound
    /\ SourceFileCount = 3
    /\ DestFileCount = 4
    /\ verdict = Invalid(Msg("File count mismatch", Root, 3, 4))

----------------------------------------------------------------------------
(* C19 *)

HasManifest == Exists(fs, Join(Src, <<"memoir.json">>))

\* C19: when the source has memoir.json, verify_migration returns
\* is_valid = true only if the destination has memoir.json and has chapters/
\* and images/ that are directories and are not empty.
C19_NonEmptyLayoutRequired ==
    (VerifyReturned /\ HasManifest /\ verdict.ok) =>
        /\ Exists(fs, Join(Dst, <<"memoir.json">>))
        /\ IsDir(fs, Join(Dst, <<"chapters">>))
        /\ Children(fs, Join(Dst, <<"chapters">>)) # {}
        /\ IsDir(fs, Join(Dst, <<"images">>))
        /\ Children(fs, Join(Dst, <<"images">>)) # {}

\* C19 as the code has it: with memoir.json in the source, is_valid = true
\* only if the destination has memoir.json and has chapters/ and images/ as
\* directories, empty or not; a destination lacking one of the three is
\* reported invalid.
C19_LayoutRequired ==
    (VerifyReturned /\ HasManifest)  =>
        /\ verdict.ok =>
              /\ Exists(fs, Join(Dst, <<"memoir.json">>))
              /\ IsDir(fs, Join(Dst, <<"chapters">>))
              /\ IsDir(fs, Join(Dst, <<"images">>))
        /\ (IsDir(fs, Dst) /\ ~Exists(fs, Join(Dst, <<"memoir.json">>))) =>
              verdict = Invalid(Msg("memoir.json not found in destination", Root, 0, 0))

\* A destination holding a file named chapters has been reported as lacking
\* the directory.
C19_Witness ==
    /\ VerifyReturned
    /\ HasManifest
    /\ IsFile(fs, Join(Dst, <<"chapters">>))
    /\ verdict = Invalid(Msg("chapters/ directory not found in destination", Root, 0, 0))

----------------------------------------------------------------------------
(* C20 *)

\* C20: verify_migration is read-only: for every pair of paths and whichever
\* result it returns, the call leaves every path and every content of the
\* filesystem, the source tree and the destination tree among them, as it
\* found them.
C20_VerifyReadOnly ==
    [][pc = "verify_call" =>
          /\ pc' = "verify_done"
          /\ fs' = fs
          /\ TreeOf(fs', Src) = TreeOf(fs, Src)
          /\ TreeOf(fs', Dst) = TreeOf(fs, Dst)
          /\ Exists(fs', Dst) <=> Exists(fs, Dst)]_vars

\* verify_migration has returned invalid for a destination that does not
\* exist, and the destination still does not exist.
C20_Witness ==
    /\ VerifyReturned
    /\ verdict = Invalid(Msg("Destination directory does not exist", Root, 0, 0))
    /\ ~Exists(fs, Dst)
    /\ fs = fs0

----------------------------------------------------------------------------
(* C21 *)

EstimateReturned == pc = "estimate_done"

\* The rate the claim names: 100 when both paths resolve to the same drive
\* root, 50 otherwise.
ClaimedRate ==
    IF exc = "None" /\ Drive(arg.source) = Drive(arg.destination)
    THEN SameDriveSpeed ELSE OtherDriveSpeed

C21_WitnessLarge ==
    /\ EstimateReturned
    /\ calculate_directory_size(fs, arg.source) = 300 * MiB
    /\ Drive(arg.destination) = Drive(arg.source)
    /\ exc = "None"
    /\ estimated = 3 * EstimateDen

----------------------------------------------------------------------------
(* C22 *)

Answered == pc = "api_done"

\* The path the request names, as the endpoint resolves it.
NewPath == Resolve(request.new_path)

\* The configuration names the new path, with a last_migration entry, and
\* the running handler is rooted there.
Switched ==
    /\ config.data_directory = NewPath
    /\ config.last_migration # NoMigration
    /\ memoir_handler = NewPath

\* The configuration and the running handler are those of the old path.
NotSwitched ==
    /\ config = StoredConfig
    /\ memoir_handler = StoredConfig.data_directory

\* C22: the endpoint stores the new data_directory (with last_migration) and
\* replaces the running handler if and only if migrate_data_directory
\* returned success = true; on every error response the stored
\* data_directory and the running handler are those of the old path.
C22_SwitchedIffMigrated ==
    Answered =>
        /\ Switched <=> success
        /\ response.status # 200 => NotSwitched

----------------------------------------------------------------------------
(* C23 *)

\* migrate_data_directory returned one of its precondition errors.
MigratorPreconditionFailed ==
    /\ arg # NoArguments
    /\ ~success
    /\ stats.error.prefix = ""
    /\ stats.error.msg.text \in PreconditionTexts

\* The failure was detected before any destination file was written: no new
\* path, a new path that validate_data_path rejects, or a precondition of
\* the migrator.
ValidationError ==
    \/ response.message = "No path provided"
    \/ arg = NoArguments /\ response.message # "resolve"
    \/ MigratorPreconditionFailed

\* C23: the endpoint answers a validation error with 400, an operational
\* failure (one after copying began) with 500, and a success with 200 and
\* files_copied, bytes_copied and backup_location of the returned record.
C23_StatusByKindOfFailure ==
    Answered =>
        /\ ValidationError => response.status = 400
        /\ (~success /\ began) => response.status = 500
        /\ (success /\ response.status = 200) =>
              /\ response.data.files_copied = stats.files_copied
              /\ response.data.bytes_copied = stats.bytes_copied
              /\ response.data.backup_location = stats.backup_location

----------------------------------------------------------------------------
(* C24 *)

VerdictText == verdict.msg.text

DestHas(name) == Exists(fs, Join(Dst, <<name>>))
DestHasDir(name) == IsDir(fs, Join(Dst, <<name>>))

StructuralTexts ==
    {"memoir.json not found in destination",
     "chapters/ directory not found in destination",
     "images/ directory not found in destination"}

SampleTexts == {"File missing in destination", "Checksum mismatch for"}

\* C24: verify_migration reports the first check that fails, in the order:
\* destination exists, destination is a directory, then (only when the
\* source has memoir.json) destination has memoir.json, chapters/ and
\* images/, then the recursive file counts match, then the sampled checksums
\* match. Each message is returned exactly when its check fails and every
\* earlier check passes; when the source has no memoir.json no structural
\* message is ever returned.
C24_FirstFailedCheckReported ==
    VerifyReturned =>
        /\ VerdictText = "Destination directory does not exist"
               <=> ~Exists(fs, Dst)
        /\ VerdictText = "Destination exists but is not a directory"
               <=> (Exists(fs, Dst) /\ ~IsDir(fs, Dst))
        /\ VerdictText = "memoir.json not found in destination"
               <=> (IsDir(fs, Dst) /\ HasManifest /\ ~DestHas("memoir.json"))
        /\ VerdictText = "chapters/ directory not found in destination"
               <=> (/\ IsDir(fs, Dst) /\ HasManifest /\ DestHas("memoir.json")
                    /\ ~DestHasDir("chapters"))
        /\ VerdictText = "images/ directory not found in destination"
               <=> (/\ IsDir(fs, Dst) /\ HasManifest /\ DestHas("memoir.json")
                    /\ DestHasDir("chapters") /\ ~DestHasDir("images"))
        /\ VerdictText = "File count mismatch"
               <=> (StructureFound /\ SourceFileCount # DestFileCount)
        /\ (verdict.ok \/ VerdictText \in SampleTexts)
               <=> (StructureFound /\ SourceFileCount = DestFileCount)
        /\ ~HasManifest => VerdictText \notin StructuralTexts

\* A destination that lacks memoir.json and chapters/ and has fewer files
\* than the source has been reported for memoir.json, the first of the three.
C24_Witness ==
    /\ VerifyReturned
    /\ HasManifest
    /\ IsDir(fs, Dst)
    /\ ~DestHas("memoir.json")
    /\ ~DestHasDir("chapters")
    /\ SourceFileCount # DestFileCount
    /\ verdict = Invalid(Msg("memoir.json not found in destination", Root, 0, 0))

\* A source without memoir.json whose chapters/ and images/ the destination
\* lacks has been found valid.
C24_WitnessSkipped ==
    /\ VerifyReturned
    /\ ~HasManifest
    /\ IsDir(fs, Join(Src, <<"chapters">>))
    /\ ~DestHas("memoir.json") /\ ~DestHas("chapters") /\ ~DestHas("images")
    /\ verdict.ok

----------------------------------------------------------------------------
(* C25 *)

\* The source as the application creates it: memoir.json beside chapters/
\* and images/, which may hold no file.
AppLayout ==
    /\ IsFile(fs0, Join(Src, <<"memoir.json">>))
    /\ IsDir(fs0, Join(Src, <<"chapters">>))
    /\ IsDir(fs0, Join(Src, <<"images">>))

DestAbsentOrEmpty ==
    ~Exists(fs0, Dst) \/ (IsDir(fs0, Dst) /\ Children(fs0, Dst) = {})

\* No statement of the call raised.
NoFault == exc = "None"

\* The free space exceeds 1.1 times the size of the source.
AmpleSpace == 10 * free > 11 * SourceSize

\* C25: for a source holding memoir.json with chapters/ and images/, empty
\* or not, and a destination that is absent or empty with enough free space,
\* migrate_data_directory returns success = true and the destination passed
\* verification.
C25_AppDirectoryMigrates ==
    (/\ Returned
     /\ AppLayout
     /\ Src # Dst
     /\ DestAbsentOrEmpty
     /\ AmpleSpace
     /\ NoFault) =>
        success /\ verdict.ok

----------------------------------------------------------------------------
(* C26 *)

\* C26: whenever migrate_data_directory returns success = true, the
\* destination exists as a directory and holds every file the source held at
\* call time with its content, wherever the destination lies relative to the
\* source, inside the source tree included.
C26_DestinationSurvivesSuccess ==
    (Returned /\ success) =>
        /\ IsDir(fs, Dst)
        /\ \A p \in FilesUnder(fs0, Src) :
               LET q == Join(Dst, RelativeTo(p, Src))
               IN  IsFile(fs, q) /\ fs[q].data = fs0[p].data

----------------------------------------------------------------------------
(* C27 *)

\* C27: a failed call removes only what it created at the destination: a
\* destination that was an empty directory before the call is an empty
\* directory after it, and a destination that did not exist before the call
\* does not exist after it.
C27_FailureRestoresDestination ==
    Failed =>
        /\ (IsDir(fs0, Dst) /\ Children(fs0, Dst) = {}) =>
               (IsDir(fs, Dst) /\ Children(fs, Dst) = {})
        /\ ~Exists(fs0, Dst) => ~Exists(fs, Dst)

----------------------------------------------------------------------------
(* C28 *)

WarningPrefixes ==
    {"Warning: Could not create backup: ",
     "Warning: Could not remove source directory: "}

\* C28: the returned record agrees with the success flag: a failure carries
\* an error and no backup_location; a success without error means the source
\* was renamed or deleted; a success with an error happens only when the
\* rename or the delete of the source failed, the error being the warning of
\* that step; backup_location is set only on a success with keep_backup =
\* true whose rename went through.
C28_RecordConsistent ==
    Returned =>
        /\ ~success =>
              (stats.error # NoError /\ stats.backup_location = NoPath)
        /\ (success /\ stats.error = NoError) => ~Exists(fs, Src)
        /\ (success /\ stats.error # NoError) =>
              /\ stats.error.prefix \in WarningPrefixes
              /\ stats.error.prefix = "Warning: Could not create backup: "
                     <=> arg.keep_backup
              /\ Exists(fs, Src)
        /\ stats.backup_location # NoPath =>
              /\ success
              /\ arg.keep_backup
              /\ stats.error = NoError
              /\ ~Exists(fs, Src)
              /\ IsDir(fs, stats.backup_location)

\* A call has succeeded with the warning of a rename that failed and no
\* backup_location.
C28_Witness ==
    /\ Returned
    /\ success
    /\ arg.keep_backup
    /\ stats.error.prefix = "Warning: Could not create backup: "
    /\ stats.backup_location = NoPath
    /\ Exists(fs, Src)

\* A call has failed with an error and no backup_location.
C28_WitnessFailed ==
    /\ Failed
    /\ began
    /\ stats.error # NoError
    /\ stats.backup_location = NoPath

----------------------------------------------------------------------------
(* C29 *)

\* The relative paths of the regular files below a directory.
RelativeFiles(d) == {RelativeTo(p, d) : p \in FilesUnder(fs, d)}

\* The destination holds the same relative file paths as the source, each
\* with the content of the source's file.
SameFiles ==
    /\ RelativeFiles(Dst) = RelativeFiles(Src)
    /\ \A r \in RelativeFiles(Src) :
           fs[Join(Dst, r)].data = fs[Join(Src, r)].data

\* C29: for a source of at most 5 regular files, verify_migration returns
\* is_valid = true if and only if the structural checks pass and the
\* destination holds exactly the source's relative file paths with identical
\* content; the answer does not depend on the sample drawn.
C29_ExactWithinSample ==
    (VerifyReturned /\ SourceFileCount <= SampleSize) =>
        (verdict.ok <=> (StructureFound /\ SameFiles))

\* A faithful copy of a source of five files has been found valid.
C29_Witness ==
    /\ VerifyReturned
    /\ SourceFileCount = SampleSize
    /\ StructureFound
    /\ SameFiles
    /\ verdict.ok

\* A destination with as many files as the source, one of them at a path the
\* source does not have, has been found invalid.
C29_WitnessInvalid ==
    /\ VerifyReturned
    /\ SourceFileCount = SampleSize
    /\ StructureFound
    /\ DestFileCount = SourceFileCount
    /\ RelativeFiles(Dst) # RelativeFiles(Src)
    /\ ~verdict.ok

----------------------------------------------------------------------------
(* C30 *)

\* The step that renames the source reports a backup.
BackupReported ==
    /\ pc = "finalize"
    /\ arg.keep_backup
    /\ success'
    /\ stats'.backup_location # NoPath

\* C30: backups are never merged or overwritten: every successful
\* keep_backup = true migration leaves the tree its source had in a directory
\* of its own at exactly the reported backup_location, a path nothing stood
\* at before, and leaves every directory that already carried a backup name
\* as it was, also when a sibling with the generated name already exists.
C30_BackupsNeverMerged ==
    [][BackupReported =>
          /\ ~Exists(fs, stats'.backup_location)
          /\ IsDir(fs', stats'.backup_location)
          /\ TreeOf(fs', stats'.backup_location) = TreeOf(fs, Src)
          /\ \A b \in BackupPaths :
                 Exists(fs, b) => TreeOf(fs', b) = TreeOf(fs, b)]_vars

====
